---- MODULE Spec2Model ----
(***************************************************************************)
(* The automation session of src/app0.1.py: a Streamlit script that is     *)
(* re-executed from top to bottom on every tick.  One action of this       *)
(* module is one execution of the script (one "script run"); the session   *)
(* state lives in st.session_state and survives between runs.              *)
(*                                                                         *)
(* Text is modelled as a sequence of one-character strings, so that        *)
(* str.strip, str.upper, the "in" test and str.split are computed on the   *)
(* characters as Python computes them.                                     *)
(***************************************************************************)
EXTENDS Integers, Sequences, FiniteSets, TLC

\* ------------------------------------------------------------------ bounds
MaxRows == 2        \* data rows of the sheet (header excluded)
MaxFiles == 1       \* files held by the image uploader

\* -------------------------------------------------------- program constants
link_col_idx == 4
approached_col_idx == 7

\* ------------------------------------------------------------ text helpers
Txt_cid == <<"c", "i", "d", "=">>
Txt_amp == <<"&">>
Txt_TRUE == <<"T", "R", "U", "E">>
Txt_FALSE == <<"F", "A", "L", "S", "E">>

RECURSIVE lstrip(_)
lstrip(s) == IF s # <<>> /\ Head(s) = " " THEN lstrip(Tail(s)) ELSE s

RECURSIVE rstrip(_)
rstrip(s) == IF s # <<>> /\ s[Len(s)] = " " THEN rstrip(SubSeq(s, 1, Len(s) - 1)) ELSE s

\* str.strip()
strip(s) == rstrip(lstrip(s))

upper_char(c) ==
    CASE c = "t" -> "T"
      [] c = "r" -> "R"
      [] c = "u" -> "U"
      [] c = "e" -> "E"
      [] c = "f" -> "F"
      [] c = "a" -> "A"
      [] c = "l" -> "L"
      [] c = "s" -> "S"
      [] OTHER -> c

\* str.upper()
upper(s) == [i \in 1..Len(s) |-> upper_char(s[i])]

\* str.find(sub) + 1: the 1-based position of the first occurrence, 0 if none
find(s, sub) ==
    LET hits == {i \in 1..(Len(s) - Len(sub) + 1) : SubSeq(s, i, i + Len(sub) - 1) = sub}
    IN  IF hits = {} THEN 0 ELSE CHOOSE i \in hits : \A j \in hits : i <= j

\* sub in s
contains(s, sub) == find(s, sub) # 0

\* str.split(sep): the list of the pieces between the occurrences of sep
RECURSIVE split(_, _)
split(s, sep) ==
    LET p == find(s, sep)
    IN  IF p = 0 THEN <<s>>
        ELSE <<SubSeq(s, 1, p - 1)>> \o split(SubSeq(s, p + Len(sep), Len(s)), sep)

\* ------------------------------------------------------------ the calendar
\* A date is a record [y, m, d], as datetime.now() gives it (the time of day
\* does not reach the values written).
is_leap(y) == (y % 4 = 0 /\ y % 100 # 0) \/ y % 400 = 0

days_in_month(y, m) ==
    IF m = 2 THEN (IF is_leap(y) THEN 29 ELSE 28)
    ELSE IF m \in {4, 6, 9, 11} THEN 30 ELSE 31

RECURSIVE days_before_month(_, _)
days_before_month(y, m) ==
    IF m = 1 THEN 0 ELSE days_before_month(y, m - 1) + days_in_month(y, m - 1)

\* date.toordinal(): 1 for 0001-01-01
toordinal(date) ==
    LET y == date.y - 1
    IN  y * 365 + (y \div 4) - (y \div 100) + (y \div 400)
        + days_before_month(date.y, date.m) + date.d

\* date.weekday(): Monday is 0
weekday(date) == (toordinal(date) + 6) % 7

\* date - timedelta(days=1)
prev_day(date) ==
    IF date.d > 1 THEN [date EXCEPT !.d = @ - 1]
    ELSE IF date.m > 1
         THEN [y |-> date.y, m |-> date.m - 1, d |-> days_in_month(date.y, date.m - 1)]
         ELSE [y |-> date.y - 1, m |-> 12, d |-> 31]

\* date - timedelta(days=n)
RECURSIVE minus_days(_, _)
minus_days(date, n) == IF n = 0 THEN date ELSE minus_days(prev_day(date), n - 1)

Digits == <<"0", "1", "2", "3", "4", "5", "6", "7", "8", "9">>

\* a number formatted with leading zeros in width places
RECURSIVE zero_padded(_, _)
zero_padded(n, width) ==
    IF width = 0 THEN <<>>
    ELSE Append(zero_padded(n \div 10, width - 1), Digits[(n % 10) + 1])

\* strftime("%m/%d/%Y")
strftime_mdY(date) ==
    zero_padded(date.m, 2) \o <<"/">> \o zero_padded(date.d, 2) \o <<"/">>
        \o zero_padded(date.y, 4)

month_names ==
    <<<<"J", "a", "n", "u", "a", "r", "y">>,
      <<"F", "e", "b", "r", "u", "a", "r", "y">>,
      <<"M", "a", "r", "c", "h">>,
      <<"A", "p", "r", "i", "l">>,
      <<"M", "a", "y">>,
      <<"J", "u", "n", "e">>,
      <<"J", "u", "l", "y">>,
      <<"A", "u", "g", "u", "s", "t">>,
      <<"S", "e", "p", "t", "e", "m", "b", "e", "r">>,
      <<"O", "c", "t", "o", "b", "e", "r">>,
      <<"N", "o", "v", "e", "m", "b", "e", "r">>,
      <<"D", "e", "c", "e", "m", "b", "e", "r">>>>

\* strftime("%B")
strftime_B(date) == month_names[date.m]

\* ------------------------------------------------------------ the store
\* A cell of the sheet is text or a boolean.
StrCell(s) == [t |-> "str", v |-> s, b |-> FALSE]
BoolCell(x) == [t |-> "bool", v |-> <<>>, b |-> x]

\* The values API renders every cell as text (read_sheet_data returns the JSON
\* "values": lists of strings).
render_cell(c) == IF c.t = "bool" THEN StrCell(IF c.b THEN Txt_TRUE ELSE Txt_FALSE) ELSE c

read_rows(sh) == [r \in 1..Len(sh) |-> [k \in 1..Len(sh[r]) |-> render_cell(sh[r][k])]]

\* read_sheet_data: the rows of the sheet, or [] when the request fails
read_sheet_data(sh, read_ok) == IF read_ok THEN read_rows(sh) ELSE <<>>

\* [True, today_str, week_str, month_str], with now the dates that the four
\* calls of datetime.now() return, in the order of the calls: for today_str,
\* for the left operand of week_start, for its weekday(), for month_str
data_to_write(now) ==
    <<BoolCell(TRUE), StrCell(strftime_mdY(now[1])),
      StrCell(strftime_mdY(minus_days(now[2], weekday(now[3])))),
      StrCell(strftime_B(now[4]))>>

\* The PUT of update_sheet_data: columns H..K (cells 8..11) of row row_number.
put_range(sh, row_number, data) ==
    IF row_number \notin 1..Len(sh) THEN sh
    ELSE [sh EXCEPT ![row_number] =
            [k \in 1..11 |->
                IF k >= 8 THEN data[k - 7]
                ELSE IF k <= Len(sh[row_number]) THEN sh[row_number][k]
                ELSE StrCell(<<>>)]]

\* update_sheet_data: the sheet afterwards; the function returns write_ok
update_sheet_data(sh, row_number, data, write_ok) ==
    IF write_ok THEN put_range(sh, row_number, data) ELSE sh

\* ------------------------------------------------------ the queue builder
\* a header check that looks for the link column only
header_too_narrow_for_link(sheet_data) == Len(sheet_data[1]) <= link_col_idx

\* len(sheet_data[0]) <= link_col_idx or len(sheet_data[0]) <= approached_col_idx
header_too_narrow(sheet_data) ==
    Len(sheet_data[1]) <= link_col_idx \/ Len(sheet_data[1]) <= approached_col_idx

\* raw_approached_value of a row ('' when the row is short)
raw_approached_value(row) ==
    IF Len(row) > approached_col_idx THEN row[approached_col_idx + 1] ELSE StrCell(<<>>)

\* link of a row ('' when the row is short)
row_link(row) == IF Len(row) > link_col_idx THEN row[link_col_idx + 1].v ELSE <<>>

\* an approached test that compares the cell as it is written
is_approached_exact(raw) ==
    IF raw.t = "bool" THEN raw.b
    ELSE raw.v = Txt_TRUE

is_approached(raw) ==
    IF raw.t = "bool" THEN raw.b
    ELSE upper(strip(raw.v)) = Txt_TRUE

\* link.split("cid=")[1].split("&")[0]
parse_cid(link) == split(split(link, Txt_cid)[2], Txt_amp)[1]

\* The targets appended for the data row with enumerate index i (sheet row i + 2):
\* one target, or none when the row is not eligible or the parse raises IndexError.
row_targets(row, i) ==
    IF contains(row_link(row), Txt_cid) /\ ~is_approached(raw_approached_value(row))
    THEN IF Len(split(row_link(row), Txt_cid)) < 2 THEN <<>>
         ELSE <<[row |-> i + 2, cid |-> parse_cid(row_link(row))]>>
    ELSE <<>>

\* a build loop that drops a row whose cid is already in the list
RECURSIVE build_from_deduplicated(_, _)
build_from_deduplicated(sheet_data, i) ==
    IF i + 2 > Len(sheet_data) THEN <<>>
    ELSE LET cur == row_targets(sheet_data[i + 2], i)
             rest == build_from_deduplicated(sheet_data, i + 1)
         IN  cur \o SelectSeq(rest, LAMBDA t : \A k \in 1..Len(cur) : t.cid # cur[k].cid)

\* creators_list after the loop over sheet_data[1:], rows i, i+1, ...
RECURSIVE build_from(_, _)
build_from(sheet_data, i) ==
    IF i + 2 > Len(sheet_data) THEN <<>>
    ELSE row_targets(sheet_data[i + 2], i) \o build_from(sheet_data, i + 1)

build_creators(sheet_data) == build_from(sheet_data, 0)

\* ------------------------------------------------------ the session state
VARIABLES
    driver,                 \* st.session_state.driver: "None", "Live" (attached to the
                            \* running Chrome) or "Dead" (a handle whose Chrome is gone)
    chrome,                 \* a debug Chrome listens on REMOTE_DEBUG_PORT
    creators,               \* st.session_state['creators']
    current_creator_index,  \* st.session_state['current_creator_index']
    automation_running,     \* st.session_state['automation_running']
    last_status,            \* st.session_state['last_status']
    uploaded_image_paths,   \* st.session_state['uploaded_image_paths']
    temp_files,             \* the temporary image files that exist on disk
    sheet,                  \* the rows of the Google Sheet
    stop_button_disabled,   \* the Stop button as last rendered (Start is its opposite)
    clock,                  \* the day it is: an index into Days
    times_submitted,        \* history: in how many runs since the queue was built the
                            \* message sequence was submitted to the target at the
                            \* cursor (2 stands for two or more)
    clicked,                \* what caused the last step: a button, "none" for a rerun
    effects                 \* what the script run of the last step did to the browser
                            \* and the store

vars == <<driver, chrome, creators, current_creator_index, automation_running,
          last_status, uploaded_image_paths, temp_files, sheet, stop_button_disabled,
          clock, times_submitted, clicked, effects>>

\* st.session_state read as one record
Session ==
    [driver |-> driver, creators |-> creators, idx |-> current_creator_index,
     running |-> automation_running, status |-> last_status,
     paths |-> uploaded_image_paths, temp |-> temp_files, sheet |-> sheet,
     fx |-> effects]

\* a status message: its text and the row number or count formatted into it
Status(msg, n) == [msg |-> msg, n |-> n]

\* one effect of a script run
Ev(e, i, row, ok, txt) == [e |-> e, i |-> i, row |-> row, ok |-> ok, txt |-> txt]

\* ------------------------------------------------------ driver management
\* get_selenium_driver that takes any attach for a success
get_selenium_driver_unchecked(d, can_attach) == IF d = "None" THEN "Live" ELSE d

\* get_selenium_driver: attach when no handle is held; can_attach tells whether
\* webdriver.Chrome(...) succeeds (it raises WebDriverException otherwise)
get_selenium_driver(d, can_attach) ==
    IF d = "None" THEN (IF can_attach THEN "Live" ELSE "None") ELSE d

\* close_selenium_driver that keeps the handle
close_selenium_driver_keeps(d) == d

\* close_selenium_driver: quit the session and drop the handle
close_selenium_driver(d) == IF d # "None" THEN "None" ELSE d

\* ------------------------------------------------------ the top of the script
\* The image uploader: every run saves the n uploaded files to temporary files
\* again and lists their paths; when saving file number fail raises, the list is
\* emptied and the loop stops (fail = 0: no file fails).
save_uploads(s, n, fail) ==
    IF n = 0 THEN [s EXCEPT !.paths = <<>>]
    ELSE IF fail = 0
         THEN [s EXCEPT !.paths = [k \in 1..n |-> k], !.temp = @ \cup (1..n)]
         ELSE [s EXCEPT !.paths = <<>>, !.temp = @ \cup (1..(fail - 1))]

\* [msg.strip() for msg in st.session_state.custom_messages if msg.strip()]
messages_to_send(custom_messages) ==
    SelectSeq([k \in 1..Len(custom_messages) |-> strip(custom_messages[k])],
              LAMBDA m : m # <<>>)

\* ------------------------------------------------------ the Stop handler
\* a Stop handler that also rewinds the queue
stop_handler_rewinds(s) ==
    [s EXCEPT !.running = FALSE, !.idx = 0, !.status = Status("StoppedByUser", 0)]

\* a Stop handler that also drops the queue and the browser session
stop_handler_resets(s) ==
    [s EXCEPT !.running = FALSE, !.creators = <<>>, !.driver = "None",
              !.status = Status("StoppedByUser", 0)]

stop_handler(s) ==
    [s EXCEPT !.running = FALSE, !.status = Status("StoppedByUser", 0)]

\* ------------------------------------------------------ the Start handler
\* a rebuild that stays running when it finds no data and no creator
rebuild_keeps_running(s, in) ==
    LET sheet_data == read_sheet_data(s.sheet, in.read_ok)
        s1 == [s EXCEPT !.idx = 0, !.fx = Append(@, Ev("read", 0, 0, in.read_ok, <<>>))]
    IN  IF Len(sheet_data) < 2
        THEN [s1 EXCEPT !.status = Status("NoData", 0), !.creators = <<>>]
        ELSE IF header_too_narrow(sheet_data)
        THEN [s1 EXCEPT !.status = Status("NotEnoughColumns", 0), !.creators = <<>>,
                        !.running = FALSE]
        ELSE LET creators_list == build_creators(sheet_data)
             IN  [s1 EXCEPT !.creators = creators_list,
                            !.status = IF creators_list = <<>>
                                       THEN Status("NoNewCreators", 0)
                                       ELSE Status("Found", Len(creators_list))]

\* The else-branch of the validation, when the queue is empty or consumed:
\* read the sheet and build the queue.
rebuild(s, in) ==
    LET sheet_data == read_sheet_data(s.sheet, in.read_ok)
        s1 == [s EXCEPT !.idx = 0, !.fx = Append(@, Ev("read", 0, 0, in.read_ok, <<>>))]
    IN  IF Len(sheet_data) < 2
        THEN [s1 EXCEPT !.status = Status("NoData", 0), !.creators = <<>>,
                        !.running = FALSE]
        ELSE IF header_too_narrow(sheet_data)
        THEN [s1 EXCEPT !.status = Status("NotEnoughColumns", 0), !.creators = <<>>,
                        !.running = FALSE]
        ELSE LET creators_list == build_creators(sheet_data)
             IN  IF creators_list = <<>>
                 THEN [s1 EXCEPT !.creators = creators_list,
                                 !.status = Status("NoNewCreators", 0),
                                 !.running = FALSE]
                 ELSE [s1 EXCEPT !.creators = creators_list,
                                 !.status = Status("Found", Len(creators_list))]

\* a Start that always reads the sheet again
needs_rebuild_always(s) == TRUE

\* if not creators or current_creator_index >= len(creators)
needs_rebuild(s) == s.creators = <<>> \/ s.idx >= Len(s.creators)

\* a validation that forgets the store id
validation_error_without_store_id(s, in) ==
    IF messages_to_send(in.custom_messages) = <<>> /\ s.paths = <<>>
    THEN "NeedMessageOrImage"
    ELSE IF ~in.sheet_id \/ ~in.selected_sheet_name THEN "NeedSheet"
    ELSE "ok"

\* the validation of the inputs: the error it reports, or "ok"
validation_error(s, in) ==
    IF messages_to_send(in.custom_messages) = <<>> /\ s.paths = <<>>
    THEN "NeedMessageOrImage"
    ELSE IF ~in.sheet_id \/ ~in.selected_sheet_name THEN "NeedSheet"
    ELSE IF strip(in.store_id) = <<>> THEN "NeedStoreId"
    ELSE "ok"

\* a Start that goes back to the first target of the queue it resumes
start_handler_rewinds(s, in) ==
    IF validation_error(s, in) # "ok"
    THEN [s EXCEPT !.status = Status(validation_error(s, in), 0), !.running = FALSE]
    ELSE LET s1 == [s EXCEPT !.running = TRUE]
         IN  IF needs_rebuild(s1) THEN rebuild(s1, in) ELSE [s1 EXCEPT !.idx = 0]

start_handler(s, in) ==
    IF validation_error(s, in) # "ok"
    THEN [s EXCEPT !.status = Status(validation_error(s, in), 0), !.running = FALSE]
    ELSE LET s1 == [s EXCEPT !.running = TRUE]
         IN  IF needs_rebuild(s1) THEN rebuild(s1, in) ELSE s1

\* ------------------------------------------------------ the automation step
\* a condition of the automation block that forgets automation_running
step_guard_ignores_running(s) == s.creators # <<>> /\ s.idx < Len(s.creators)

\* the condition of the automation block
step_guard(s) == s.running /\ s.creators # <<>> /\ s.idx < Len(s.creators)

\* The exception that leaves the browser part of the try block before the image
\* upload, if any: where it is raised, its class, and how many messages were
\* submitted before it.  A handle whose Chrome is gone raises in driver.get.
ui_raises(s, f) ==
    IF s.driver = "Dead"
    THEN [phase |-> "nav", exc |-> "WebDriverException", k |-> 0, typed |-> FALSE]
    ELSE [phase |-> f.phase, exc |-> f.exc, k |-> f.k, typed |-> f.typed]

\* a message loop that types every block before it submits any
browser_effects_batched(s, msgs, u) ==
    LET cur == s.creators[s.idx + 1]
        todo == SelectSeq(msgs, LAMBDA m : strip(m) # <<>>)
        sent == IF u.phase = "none" THEN Len(todo)
                ELSE IF u.phase = "send" THEN u.k ELSE 0
    IN  IF u.phase = "nav" THEN <<>>
        ELSE <<Ev("nav", s.idx, cur.row, TRUE, cur.cid)>>
             \o [j \in 1..(2 * sent) |->
                    IF j <= sent THEN Ev("type", j, cur.row, TRUE, todo[j])
                    ELSE Ev("msg", j - sent, cur.row, TRUE, todo[j - sent])]

\* driver.get, the wait for the message input, and the message loop, up to the
\* exception u.  The loop skips a blank block; for every other block it types
\* the block ("type") and then presses Enter ("msg").  An exception of the loop
\* comes after u.k blocks were submitted, before or after the next was typed.
browser_effects(s, msgs, u) ==
    LET cur == s.creators[s.idx + 1]
        todo == SelectSeq(msgs, LAMBDA m : strip(m) # <<>>)
        sent == IF u.phase = "none" THEN Len(todo)
                ELSE IF u.phase = "send" THEN u.k ELSE 0
        typed == IF u.phase = "send" /\ u.typed THEN sent + 1 ELSE sent
    IN  IF u.phase = "nav" THEN <<>>
        ELSE <<Ev("nav", s.idx, cur.row, TRUE, cur.cid)>>
             \o [j \in 1..(sent + typed) |->
                    IF j % 2 = 1 THEN Ev("type", (j + 1) \div 2, cur.row, TRUE,
                                         todo[(j + 1) \div 2])
                    ELSE Ev("msg", j \div 2, cur.row, TRUE, todo[j \div 2])]

\* the image upload block with its finally clause; every exception raised in it
\* is caught in it
upload_raises(att) ==
    CASE att = "input_timeout" -> <<"TimeoutException">>
      [] att = "input_missing" -> <<"NoSuchElementException">>
      [] att = "upload_session_lost" -> <<"WebDriverException">>
      [] att = "upload_error" -> <<"Exception">>
      [] att = "no_dialog" -> <<"TimeoutException">>
      [] att = "dialog_error" -> <<"Exception">>
      [] OTHER -> <<>>

\* an upload block without the except clause for the timeout of the file input
upload_escapes_on_timeout(att) ==
    IF att = "input_timeout" THEN "TimeoutException" ELSE "none"

\* The exception that leaves the image upload block, "none" when none does: an
\* exception of the dialog part is caught by the inner except clauses (615-620),
\* any other by except TimeoutException, except NoSuchElementException or
\* except Exception (625-636).
upload_escapes(att) ==
    IF upload_raises(att) = <<>> THEN "none"
    ELSE IF att \in {"no_dialog", "dialog_error"} THEN "none"
    ELSE IF upload_raises(att)[1] \in {"TimeoutException", "NoSuchElementException"}
    THEN "none"
    ELSE "none"

\* an upload block whose finally clause is missing
upload_images_without_cleanup(s, f) ==
    IF s.paths = <<>> THEN s
    ELSE LET row == s.creators[s.idx + 1].row
             up == IF f.att \in {"dialog", "no_dialog", "dialog_error"}
                   THEN <<Ev("attach", Len(s.paths), row, TRUE, <<>>)>> ELSE <<>>
             ok == IF f.att = "dialog"
                   THEN <<Ev("confirm", 0, row, TRUE, <<>>)>>
                   ELSE <<Ev("caught_in_upload", s.idx, row, TRUE, upload_raises(f.att))>>
         IN  [s EXCEPT !.fx = @ \o up \o ok]

\* The image upload block: the file input takes all paths at once, the dialog
\* is confirmed if it shows, and the finally clause removes the temporary files
\* (os.remove fails for all of them when rm_ok is false) and empties the list.
upload_images(s, f) ==
    IF s.paths = <<>> THEN s
    ELSE LET row == s.creators[s.idx + 1].row
             up == IF f.att \in {"dialog", "no_dialog", "dialog_error"}
                   THEN <<Ev("attach", Len(s.paths), row, TRUE, <<>>)>> ELSE <<>>
             ok == IF f.att = "dialog"
                   THEN <<Ev("confirm", 0, row, TRUE, <<>>)>>
                   ELSE <<Ev("caught_in_upload", s.idx, row, TRUE, upload_raises(f.att))>>
             rm == <<Ev("cleanup", Len(s.paths), row, f.rm_ok, <<>>)>>
         IN  [s EXCEPT !.fx = @ \o up \o ok \o rm,
                       !.temp = IF f.rm_ok
                                THEN @ \ {s.paths[k] : k \in 1..Len(s.paths)} ELSE @,
                       !.paths = <<>>]

\* a completion that leaves the consumed queue in place
on_complete_keeps_queue(s) ==
    [s EXCEPT !.status = Status("AllProcessed", 0), !.running = FALSE]

\* a completion that forgets to reset the index
on_complete_keeps_index(s) ==
    [s EXCEPT !.status = Status("AllProcessed", 0), !.creators = <<>>, !.running = FALSE]

\* all creators processed: reset the state for a fresh start
on_complete(s) ==
    [s EXCEPT !.status = Status("AllProcessed", 0), !.creators = <<>>, !.idx = 0,
              !.running = FALSE]

\* an update failure reported with the message of an unexpected error
on_update_failure_unmarked(s, row) ==
    [s EXCEPT !.status = Status("Unexpected", 0), !.running = FALSE]

\* an update failure that leaves the session running
on_update_failure_keeps_running(s, row) ==
    [s EXCEPT !.status = Status("FailedUpdate", row)]

\* the sheet update failed
on_update_failure(s, row) ==
    [s EXCEPT !.status = Status("FailedUpdate", row), !.running = FALSE]

\* a step that reruns for the same creator after the sheet update
after_update_stays(s, row, update_success) ==
    IF update_success
    THEN [s EXCEPT !.status = Status("Moving", row),
                   !.fx = Append(@, Ev("rerun", 0, 0, TRUE, <<>>))]
    ELSE on_update_failure(s, row)

\* a step that moves on whether the sheet was updated or not
after_update_unchecked(s, row, update_success) ==
    LET s2 == [s EXCEPT !.idx = @ + 1,
                        !.fx = Append(@, Ev("advance", s.idx + 1, row, TRUE, <<>>))]
    IN  IF s2.running /\ s2.idx < Len(s2.creators)
        THEN [s2 EXCEPT !.status = Status("Moving", row),
                        !.fx = Append(@, Ev("rerun", 0, 0, TRUE, <<>>))]
        ELSE on_complete(s2)

\* move to the next creator or complete the automation
after_update(s, row, update_success) ==
    IF update_success
    THEN LET s2 == [s EXCEPT !.idx = @ + 1,
                             !.fx = Append(@, Ev("advance", s.idx + 1, row, TRUE, <<>>))]
         IN  IF s2.running /\ s2.idx < Len(s2.creators)
             THEN [s2 EXCEPT !.status = Status("Moving", row),
                             !.fx = Append(@, Ev("rerun", 0, 0, TRUE, <<>>))]
             ELSE on_complete(s2)
    ELSE on_update_failure(s, row)

\* update the sheet, then move to the next creator or complete
record_and_advance(s, f) ==
    LET row == s.creators[s.idx + 1].row
        s1 == [s EXCEPT !.sheet = update_sheet_data(@, row, data_to_write(f.now), f.write_ok),
                        !.fx = Append(@, Ev("write", s.idx, row, f.write_ok, <<>>))]
    IN  after_update(s1, row, f.write_ok)

\* a timeout that skips the creator and goes on
on_timeout_skips(s, row) ==
    [s EXCEPT !.status = Status("Timeout", row), !.idx = @ + 1]

\* except TimeoutException
on_timeout(s, row) ==
    [s EXCEPT !.status = Status("Timeout", row), !.running = FALSE]

\* except clauses that all close the browser session
handle_exception_releases_always(s, exc) ==
    LET row == s.creators[s.idx + 1].row
    IN  [s EXCEPT !.status = Status(IF exc = "TimeoutException" THEN "Timeout"
                                    ELSE IF exc = "NoSuchElementException"
                                    THEN "ElementNotFound"
                                    ELSE IF exc = "WebDriverException" THEN "BrowserError"
                                    ELSE "Unexpected",
                                    IF exc \in {"TimeoutException", "NoSuchElementException"}
                                    THEN row ELSE 0),
                  !.driver = close_selenium_driver(@), !.running = FALSE]

\* except clauses that also drop the queue
handle_exception_drops_queue(s, exc) ==
    [s EXCEPT !.status = Status("Unexpected", 0), !.creators = <<>>, !.idx = 0,
              !.running = FALSE]

\* the except clauses of the try block
handle_exception(s, exc) ==
    LET row == s.creators[s.idx + 1].row
    IN  IF exc = "TimeoutException"
        THEN on_timeout(s, row)
        ELSE IF exc = "NoSuchElementException"
        THEN [s EXCEPT !.status = Status("ElementNotFound", row), !.running = FALSE]
        ELSE IF exc = "WebDriverException"
        THEN [s EXCEPT !.status = Status("BrowserError", 0),
                       !.driver = close_selenium_driver(@), !.running = FALSE]
        ELSE [s EXCEPT !.status = Status("Unexpected", 0), !.running = FALSE]

\* the automation block for the creator at current_creator_index
automation_step(s, in, f) ==
    LET row == s.creators[s.idx + 1].row
        msgs == messages_to_send(in.custom_messages)
        d == get_selenium_driver(s.driver, f.attach_ok)
    IN  IF d = "None"
        THEN [s EXCEPT !.driver = d, !.status = Status("DriverNotActive", 0),
                       !.running = FALSE]
        ELSE LET s1 == [s EXCEPT !.driver = d, !.status = Status("Navigating", row)]
                 u == ui_raises(s1, f)
                 s2 == [s1 EXCEPT !.fx = @ \o browser_effects(s1, msgs, u)]
                 s3 == [s2 EXCEPT !.fx = Append(@, Ev("raised", s.idx, row, TRUE, <<u.exc>>))]
                 s4 == upload_images(s2, f)
                 esc == IF s2.paths = <<>> THEN "none" ELSE upload_escapes(f.att)
                 s5 == [s4 EXCEPT !.fx = Append(@, Ev("raised", s.idx, row, TRUE, <<esc>>))]
             IN  IF u.phase # "none" THEN handle_exception(s3, u.exc)
                 ELSE IF esc # "none" THEN handle_exception(s5, esc)
                 ELSE record_and_advance(s4, f)

\* ------------------------------------------------------ a step cut short
\* A widget interaction that arrives while the script runs is a rerun request:
\* the next Streamlit command that sends an element to the page raises the
\* exception of st.rerun(), which no except clause of the script catches (it
\* is not an Exception) and which the finally clause of the upload block lets
\* through after its cleanup.  A cut names the command of the automation block
\* that raises it:
\*   "navigating" 525, "pasted" 547 and "sent" 555 for text block k,
\*   "uploading" 562, "attached" 589 and 605, "cleaning" 643 and 645,
\*   "recorded" 222, "advanced" 667 and 671,
\*   "reporting" 519, 678 and the first command of an except clause (684-699).
Cuts(nmsgs) ==
    {[at |-> a, k |-> 0] : a \in {"navigating", "uploading", "attached", "cleaning",
                                  "recorded", "advanced", "reporting"}}
    \cup {[at |-> a, k |-> k] : a \in {"pasted", "sent"}, k \in 1..nmsgs}

\* the step whose calls have the outcomes f reaches the command of the cut
cut_reached(s, in, f, cut) ==
    LET d == get_selenium_driver(s.driver, f.attach_ok)
        todo == messages_to_send(in.custom_messages)
        failed == d = "None" \/ ui_raises([s EXCEPT !.driver = d], f).phase # "none"
    IN  CASE cut.at = "reporting" -> failed \/ ~f.write_ok
          [] cut.at = "navigating" -> d # "None"
          [] cut.at \in {"pasted", "sent"} -> ~failed /\ cut.k \in 1..Len(todo)
          [] cut.at \in {"uploading", "cleaning"} -> ~failed /\ s.paths # <<>>
          [] cut.at = "attached" ->
                ~failed /\ s.paths # <<>> /\ f.att \in {"dialog", "no_dialog", "dialog_error"}
          [] cut.at \in {"recorded", "advanced"} -> ~failed /\ f.write_ok

\* The automation block up to the command of the cut, for the creator at
\* current_creator_index: what was done before the command stays done, the
\* assignments after it are not made.
interrupted_step(s, in, f, cut) ==
    LET row == s.creators[s.idx + 1].row
        msgs == messages_to_send(in.custom_messages)
        d == get_selenium_driver(s.driver, f.attach_ok)
        s1 == [s EXCEPT !.driver = d, !.status = Status("Navigating", row)]
        part == [phase |-> "send", exc |-> "RerunException",
                 k |-> IF cut.at = "pasted" THEN cut.k - 1 ELSE cut.k,
                 typed |-> cut.at = "pasted"]
        s2 == [s1 EXCEPT !.fx = @ \o browser_effects(s1, msgs, ui_raises(s1, f))]
        s4 == upload_images(s2, f)
        written == [s4 EXCEPT !.sheet = update_sheet_data(@, row, data_to_write(f.now), TRUE),
                              !.fx = Append(@, Ev("write", s.idx, row, TRUE, <<>>))]
        full == automation_step(s, in, f)
    IN  CASE cut.at = "reporting" ->
                [full EXCEPT !.running = TRUE, !.driver = d]
          [] cut.at = "navigating" -> s1
          [] cut.at = "pasted" ->
                [s1 EXCEPT !.fx = @ \o browser_effects(s1, msgs, part),
                           !.status = Status("Pasted", row)]
          [] cut.at = "sent" ->
                [s1 EXCEPT !.fx = @ \o browser_effects(s1, msgs, part),
                           !.status = Status("MessageSent", row)]
          [] cut.at = "uploading" -> [s2 EXCEPT !.status = Status("Uploading", row)]
          [] cut.at = "attached" ->
                [s2 EXCEPT !.fx = @ \o <<Ev("attach", Len(s2.paths), row, TRUE, <<>>),
                                         Ev("cleanup", Len(s2.paths), row, f.rm_ok, <<>>)>>,
                           !.temp = IF f.rm_ok
                                    THEN @ \ {s2.paths[k] : k \in 1..Len(s2.paths)} ELSE @,
                           !.paths = <<>>,
                           !.status = Status("ImagesSent", row)]
          [] cut.at = "cleaning" ->
                [s4 EXCEPT !.fx = SubSeq(@, 1, Len(@) - 1)
                                  \o <<Ev("cleanup", 1, row, f.rm_ok, <<>>)>>,
                           !.temp = IF f.rm_ok THEN s2.temp \ {s2.paths[1]} ELSE s2.temp,
                           !.paths = s2.paths,
                           !.status = Status("Uploading", row)]
          [] cut.at = "recorded" -> written
          [] cut.at = "advanced" ->
                [written EXCEPT !.idx = @ + 1,
                                !.fx = Append(@, Ev("advance", s.idx + 1, row, TRUE, <<>>)),
                                !.status = IF s.idx + 1 < Len(s.creators)
                                           THEN Status("Moving", row)
                                           ELSE Status("AllProcessed", 0)]

\* ------------------------------------------------------ one script run
\* The script from its top to the automation block: the clicked button (or
\* "none" for a rerun) and the widget values in.  launch_chrome_instance kills
\* the Chrome a held handle is attached to.
before_step(s, button, in) ==
    LET s0 == [s EXCEPT !.fx = <<>>]
        sA == IF button = "close" THEN [s0 EXCEPT !.driver = close_selenium_driver(@)]
              ELSE IF button = "launch" /\ strip(in.store_id) # <<>> /\ s0.driver = "Live"
              THEN [s0 EXCEPT !.driver = "Dead"]
              ELSE s0
        sB == save_uploads(sA, in.files, in.save_fail)
        sC == IF button = "stop" THEN stop_handler(sB) ELSE sB
    IN  IF button = "start" THEN start_handler(sC, in) ELSE sC

\* One execution of the script from top to bottom, with the outcomes f of the
\* calls to the browser and the store.  A Start that has a queue ends in
\* st.rerun(); otherwise the automation block follows.
script_run(s, button, in, f) ==
    LET sD == before_step(s, button, in)
    IN  IF button = "start" /\ sD.running /\ sD.creators # <<>>
        THEN [sD EXCEPT !.fx = Append(@, Ev("rerun", 0, 0, TRUE, <<>>))]
        ELSE IF step_guard(sD) THEN automation_step(sD, in, f)
        ELSE sD

\* ------------------------------------------------------ inputs and outcomes
StoreIds == {<<" ">>, <<"7">>}

\* the message text areas: the single empty one the form starts with, and two
\* messages around a text area left blank
CustomMessages ==
    {<<<<>>>>,
     <<<<" ", "a">>, <<" ">>, <<"b", " ">>>>}

\* the uploader: empty, or MaxFiles files of which all are saved or the last
\* one fails
Uploads ==
    {[files |-> 0, save_fail |-> 0], [files |-> MaxFiles, save_fail |-> 0],
     [files |-> MaxFiles, save_fail |-> MaxFiles]}

\* the widget values of a run that clicks no Start: only the uploads and, by the
\* automation block, the messages are read
TickInputs ==
    {[custom_messages |-> m, files |-> u.files, save_fail |-> u.save_fail,
      store_id |-> <<"7">>, sheet_id |-> TRUE, selected_sheet_name |-> TRUE,
      read_ok |-> TRUE] : m \in CustomMessages, u \in {v \in Uploads : v.save_fail <= v.files}}

\* the widget values a run reads while no automation is running
IdleInputs == {in \in TickInputs : in.custom_messages = <<<<>>>>}

RunInputs == IF automation_running THEN TickInputs ELSE IdleInputs

\* The widget values and the outcome of the sheet read of a run that clicks
\* Start.  A sheet can be selected only when the link gave a sheet id, and the
\* sheet is read only with a sheet selected.
StartInputs ==
    {[custom_messages |-> i.custom_messages, files |-> i.files, save_fail |-> i.save_fail,
      store_id |-> sid, sheet_id |-> sh[1], selected_sheet_name |-> sh[2],
      read_ok |-> sh[3]] :
        i \in TickInputs, sid \in StoreIds,
        sh \in {<<FALSE, FALSE, TRUE>>, <<TRUE, FALSE, TRUE>>, <<TRUE, TRUE, TRUE>>,
                 <<TRUE, TRUE, FALSE>>}}

\* The days of the model: a Sunday that ends a month and the Monday after it.
Days == <<[y |-> 2026, m |-> 5, d |-> 31], [y |-> 2026, m |-> 6, d |-> 1]>>

\* the four calls of datetime.now() of a step all fall on the day it is
Today == [k \in 1..4 |-> Days[clock]]

NoFault ==
    [attach_ok |-> TRUE, phase |-> "none", exc |-> "none", k |-> 0, typed |-> FALSE,
     att |-> "dialog", rm_ok |-> TRUE, write_ok |-> TRUE, now |-> Today]

\* the exceptions the browser part can raise with nmsgs messages to send
Raises(nmsgs) ==
    {[NoFault EXCEPT !.phase = "nav", !.exc = "WebDriverException"],
     [NoFault EXCEPT !.phase = "wait", !.exc = "TimeoutException"],
     [NoFault EXCEPT !.phase = "wait", !.exc = "WebDriverException"],
     [NoFault EXCEPT !.phase = "find", !.exc = "NoSuchElementException"]}
    \cup {[NoFault EXCEPT !.phase = "send", !.exc = e, !.k = k, !.typed = ty] :
            e \in {"WebDriverException", "Exception"}, k \in 0..(nmsgs - 1),
            ty \in BOOLEAN}

Attachments == {"dialog", "no_dialog", "dialog_error", "input_timeout", "input_missing",
                "upload_session_lost", "upload_error"}

\* the outcomes of a step that raises nothing outside the image upload block;
\* os.remove fails in one of them
Completes(with_images) ==
    IF with_images
    THEN {[NoFault EXCEPT !.att = a, !.write_ok = w] : a \in Attachments, w \in BOOLEAN}
         \cup {[NoFault EXCEPT !.att = "no_dialog", !.rm_ok = FALSE, !.write_ok = w] :
                    w \in BOOLEAN}
    ELSE {[NoFault EXCEPT !.write_ok = w] : w \in BOOLEAN}

\* The outcomes the calls of a run can have, given the session the automation
\* block finds: attaching can succeed only while Chrome listens.
Outcomes(s, in) ==
    IF ~step_guard(s) \/ s.driver = "Dead" THEN {NoFault}
    ELSE LET run == Raises(Len(messages_to_send(in.custom_messages)))
                    \cup Completes(s.paths # <<>>)
         IN  IF s.driver = "Live" THEN run
             ELSE {[NoFault EXCEPT !.attach_ok = FALSE]} \cup (IF chrome THEN run ELSE {})

\* ------------------------------------------------------ the sheets
Filler == StrCell(<<>>)
WideHeader == [k \in 1..8 |-> StrCell(<<"h">>)]
NarrowHeader == [k \in 1..5 |-> StrCell(<<"h">>)]

\* a row that ends at its link cell, as the API returns a row not yet approached
LinkRow(link) == [k \in 1..5 |-> IF k = 5 THEN StrCell(link) ELSE Filler]
\* a row with its Approached cell
FullRow(link, approached) ==
    [k \in 1..8 |-> IF k = 5 THEN StrCell(link)
                    ELSE IF k = 8 THEN StrCell(approached) ELSE Filler]

\* a row to message, and a row already approached
RowSamples ==
    {LinkRow(<<"c", "i", "d", "=", "1", "&", "y">>),
     FullRow(<<"c", "i", "d", "=", "2">>, <<" ", "t", "r", "u", "e">>)}

Sheets ==
    {<<NarrowHeader, LinkRow(<<"c", "i", "d", "=", "1", "&", "y">>)>>}
    \cup UNION {{<<WideHeader>> \o rows : rows \in [1..n -> RowSamples]} : n \in 0..MaxRows}

\* ------------------------------------------------------ reading the effects
HasEv(fx, kind) == \E k \in 1..Len(fx) : fx[k].e = kind

EvsOf(fx, kind) == SelectSeq(fx, LAMBDA e : e.e = kind)

\* the run let the exception class exc reach the except clauses of the step
Raised(fx, exc) == \E k \in 1..Len(fx) : fx[k].e = "raised" /\ fx[k].txt = <<exc>>

\* the run raised exc inside the image upload block
CaughtInUpload(fx, exc) ==
    \E k \in 1..Len(fx) : fx[k].e = "caught_in_upload" /\ fx[k].txt = <<exc>>

\* the run touched neither the browser nor the store
NoSideEffect(fx) ==
    \A k \in 1..Len(fx) : fx[k].e \notin {"nav", "type", "msg", "attach", "confirm", "write"}

ValidationErrors == {"NeedMessageOrImage", "NeedSheet", "NeedStoreId"}

\* ------------------------------------------------------ the specification
Init ==
    /\ driver = "None"
    /\ chrome \in BOOLEAN
    /\ creators = <<>>
    /\ current_creator_index = 0
    /\ automation_running = FALSE
    /\ last_status = Status("Ready", 0)
    /\ uploaded_image_paths = <<>>
    /\ temp_files = {}
    /\ sheet \in Sheets
    /\ stop_button_disabled = TRUE
    /\ clock = 1
    /\ times_submitted = 0
    /\ clicked = "none"
    /\ effects = <<>>

\* the session state after a run; the buttons were rendered from the state the
\* run began with
Commit(s, button) ==
    /\ clicked' = button
    /\ driver' = s.driver
    /\ creators' = s.creators
    /\ current_creator_index' = s.idx
    /\ automation_running' = s.running
    /\ last_status' = s.status
    /\ uploaded_image_paths' = s.paths
    /\ temp_files' = s.temp
    /\ sheet' = s.sheet
    /\ effects' = s.fx
    /\ stop_button_disabled' = ~automation_running

\* a rerun: st.rerun() or a widget edited
Rerun ==
    \E in \in RunInputs :
        \E f \in Outcomes(before_step(Session, "none", in), in) :
            /\ Commit(script_run(Session, "none", in, f), "none")
            /\ UNCHANGED <<chrome, clock>>

RunTick == Rerun /\ UNCHANGED times_submitted

\* the button "Close Automated Browser Session"
RunClose ==
    \E in \in RunInputs :
        \E f \in Outcomes(before_step(Session, "close", in), in) :
            /\ Commit(script_run(Session, "close", in, f), "close")
            /\ UNCHANGED <<chrome, clock, times_submitted>>

\* the button "Launch chrome instance"
RunLaunch ==
    \E in \in RunInputs, sid \in StoreIds :
        LET inp == [in EXCEPT !.store_id = sid]
        IN  \E f \in Outcomes(before_step(Session, "launch", inp), inp) :
                /\ Commit(script_run(Session, "launch", inp, f), "launch")
                /\ chrome' = (chrome \/ strip(sid) # <<>>)
                /\ UNCHANGED <<clock, times_submitted>>

\* the button "Stop Automation"
StopClick ==
    /\ ~stop_button_disabled
    /\ \E in \in IdleInputs :
        /\ Commit(script_run(Session, "stop", in, NoFault), "stop")
        /\ UNCHANGED <<chrome, clock>>

RunStop == StopClick /\ UNCHANGED times_submitted

\* the button "Start Messaging Session"
StartClick ==
    /\ stop_button_disabled
    /\ \E in \in StartInputs :
        /\ Commit(script_run(Session, "start", in, NoFault), "start")
        /\ UNCHANGED <<chrome, clock>>

RunStart == StartClick /\ UNCHANGED times_submitted

\* the user closes the debug Chrome: no script runs
ChromeDies ==
    /\ chrome
    /\ chrome' = FALSE
    /\ driver' = IF driver = "Live" THEN "Dead" ELSE driver
    /\ clicked' = "chrome_closed"
    /\ effects' = <<>>
    /\ UNCHANGED <<creators, current_creator_index, automation_running, last_status,
                   uploaded_image_paths, temp_files, sheet, stop_button_disabled,
                   clock, times_submitted>>

Next == RunTick \/ RunClose \/ RunLaunch \/ RunStop \/ RunStart \/ ChromeDies

\* the runs of one day: no run of the script meets a change of the date
Spec == Init /\ [][Next]_vars

\* The dates the four calls of datetime.now() of a step can return when the
\* date changes before or between them: they never go back, and the last one
\* falls on a later day than the day it was.
ClockReads ==
    {r \in [1..4 -> clock..Len(Days)] :
        /\ \A k \in 1..3 : r[k] <= r[k + 1]
        /\ r[4] > clock}

\* a rerun whose step reaches the sheet update while the date changes
RunTickOverMidnight ==
    \E in \in RunInputs :
        \E f \in Outcomes(before_step(Session, "none", in), in), r \in ClockReads :
            LET run == script_run(Session, "none", in,
                                  [f EXCEPT !.now = [k \in 1..4 |-> Days[r[k]]]])
            IN  /\ HasEv(run.fx, "write")
                /\ Commit(run, "none")
                /\ clock' = r[4]
                /\ UNCHANGED <<chrome, times_submitted>>

NextClock == Next \/ RunTickOverMidnight

\* the runs of the days of Days
ClockSpec == Init /\ [][NextClock]_vars

\* the run submitted the whole message sequence: it submitted a text block or
\* handed over the attachments, and it went on to the sheet update, which
\* comes after the message loop and the image upload block
SubmittedAll(fx) == (HasEv(fx, "msg") \/ HasEv(fx, "attach")) /\ HasEv(fx, "write")

\* The history of the submissions: the count is for the target at the cursor,
\* so it starts again when the queue or the cursor changes; a run that
\* submits the whole message sequence adds to it.
Counted ==
    times_submitted' =
        IF creators' # creators \/ current_creator_index' # current_creator_index THEN 0
        ELSE IF SubmittedAll(effects')
        THEN (IF times_submitted = 0 THEN 1 ELSE 2)
        ELSE times_submitted

CountedTick == Rerun /\ Counted

CountedStop == StopClick /\ Counted

CountedStart == StartClick /\ Counted

NextCounted == CountedTick \/ CountedStop \/ CountedStart

\* the Start and Stop clicks and the reruns of one day, with the history of the
\* submissions kept
CountingSpec == Init /\ [][NextCounted]_vars

\* A session that is left to itself, with a browser that can be reached: Start
\* is clicked only while the session is not running, Stop never, and no call
\* of a step fails.
FairInit == Init /\ chrome

StartSession == ~automation_running /\ StartClick /\ UNCHANGED times_submitted

SteadyTick ==
    /\ \E in \in RunInputs :
        /\ NoFault \in Outcomes(before_step(Session, "none", in), in)
        /\ \E after \in {script_run(Session, "none", in, NoFault)} : Commit(after, "none")
        /\ UNCHANGED <<chrome, clock>>
    /\ UNCHANGED times_submitted

NextFair == StartSession \/ SteadyTick

\* Every st.rerun() (498, 668) is followed by a run of the script: reruns are
\* weakly fair.
FairSpec == FairInit /\ [][NextFair]_vars /\ WF_vars(SteadyTick)

\* Stop is clicked while a rerun is in its automation block (the run rendered
\* the Stop button enabled, the session being running): the run ends at the
\* command of the cut, and the rerun that follows handles the click.
RunStopInFlight ==
    \E in \in TickInputs :
        LET sD == before_step(Session, "none", in)
        IN  /\ step_guard(sD)
            /\ \E f \in Outcomes(sD, in),
                  cut \in Cuts(Len(messages_to_send(in.custom_messages))) :
                    /\ cut_reached(sD, in, f, cut)
                    /\ LET cut_run == interrupted_step(sD, in, f, cut)
                           stop_run == script_run(cut_run, "stop", in, NoFault)
                       IN  Commit([stop_run EXCEPT !.fx = cut_run.fx], "stop_in_flight")
                    /\ UNCHANGED <<chrome, clock, times_submitted>>

NextInFlight == Next \/ RunStopInFlight

\* the runs of one day, with the Stop clicks that arrive during a step
InFlightSpec == Init /\ [][NextInFlight]_vars

\* ------------------------------------------------------ the claims

\* C1, as the specification states it: when the message input of the target at
\* cursor i is not found within the timeout, the session stays Running and the
\* cursor becomes i + 1 (the target is skipped).
C1_TimeoutSkipsTarget ==
    [][Raised(effects', "TimeoutException")
        => /\ automation_running'
           /\ current_creator_index' = current_creator_index + 1]_vars

\* C1, amended: when the message input of the target at cursor i is not found
\* within the timeout, the automation stops: the session leaves Running, the
\* cursor stays i, the queue is kept, and nothing is written to the store.
C1_TimeoutStopsSession ==
    [][Raised(effects', "TimeoutException")
        => /\ ~automation_running'
           /\ current_creator_index' = current_creator_index
           /\ creators' = creators
           /\ sheet' = sheet
           /\ ~HasEv(effects', "write")
           /\ last_status'.msg = "Timeout"]_vars

\* a timeout on a target that is not the last of its queue
C1_Witness ==
    /\ Raised(effects, "TimeoutException")
    /\ HasEv(effects, "nav")
    /\ ~automation_running
    /\ Len(creators) >= current_creator_index + 2

\* C2, as the specification states it: whenever the connection to the browser
\* is lost while the step for the target at cursor i runs, the session leaves
\* Running with the cursor still i, the queue unchanged and the driver handle
\* released.
C2_AnySessionLossAborts ==
    [][(Raised(effects', "WebDriverException")
            \/ CaughtInUpload(effects', "WebDriverException"))
        => /\ ~automation_running'
           /\ current_creator_index' = current_creator_index
           /\ creators' = creators
           /\ driver' = "None"]_vars

\* C2, amended: when the connection to the browser is lost while the step
\* navigates, waits for the message input or sends the text blocks (anywhere
\* but in the image upload block, which catches every exception), the session
\* leaves Running with the cursor still i, the queue unchanged and the driver
\* handle released.
C2_SessionLossAborts ==
    [][Raised(effects', "WebDriverException")
        => /\ ~automation_running'
           /\ last_status'.msg = "BrowserError"
           /\ current_creator_index' = current_creator_index
           /\ creators' = creators
           /\ driver' = "None"]_vars

\* the connection was lost after the navigation to a target
C2_Witness ==
    /\ Raised(effects, "WebDriverException")
    /\ HasEv(effects, "nav")
    /\ driver = "None"
    /\ ~automation_running
    /\ creators # <<>>

\* C3: when the sheet update for the target at cursor i fails, the session
\* leaves Running with the cursor still i and the queue unchanged, and the
\* status message is the one of a failed sheet update, which no other failure
\* and no Stop sets.
C3_WriteFailureIsMarked ==
    [][LET failed == \E k \in 1..Len(effects') :
                        effects'[k].e = "write" /\ ~effects'[k].ok
       IN  /\ failed => /\ ~automation_running'
                        /\ current_creator_index' = current_creator_index
                        /\ creators' = creators
                        /\ HasEv(effects', "nav")
                        /\ last_status'.msg = "FailedUpdate"
                        /\ last_status'.n = creators[current_creator_index + 1].row
           /\ (~failed /\ last_status'.msg = "FailedUpdate")
                => last_status' = last_status]_vars

\* a failed sheet update after the messages of a target were sent
C3_Witness ==
    /\ \E k \in 1..Len(effects) : effects[k].e = "write" /\ ~effects[k].ok
    /\ HasEv(effects, "msg")
    /\ last_status.msg = "FailedUpdate"

\* C4: the cursor is incremented only in a step that issued exactly one sheet
\* update, for the row of the target at the cursor, which succeeded and came
\* before the increment; no run issues more than one sheet update.
C4_AdvanceNeedsOneWrite ==
    [][LET fx == effects'
           w == EvsOf(fx, "write")
           advanced == HasEv(fx, "advance")
       IN  /\ Len(w) <= 1
           /\ advanced =>
                /\ Len(w) = 1
                /\ w[1].ok
                /\ current_creator_index < Len(creators)
                /\ w[1].row = creators[current_creator_index + 1].row
                /\ \E j, k \in 1..Len(fx) :
                        j < k /\ fx[j].e = "write" /\ fx[k].e = "advance"
           /\ current_creator_index' = current_creator_index + 1 => advanced
           /\ (last_status'.msg = "AllProcessed" /\ last_status' # last_status)
                => advanced]_vars

\* the cursor was incremented and the queue goes on
C4_Witness ==
    /\ HasEv(effects, "advance")
    /\ current_creator_index >= 1
    /\ automation_running

\* C5: a Start that follows a Stop at cursor K < len(queue) keeps the queue and
\* the cursor and does not read the sheet, and the step that follows it is for
\* queue[K].
C5_StartResumesAfterStop ==
    [][/\ (clicked' = "start" /\ last_status.msg = "StoppedByUser"
            /\ current_creator_index < Len(creators))
          => /\ creators' = creators
             /\ current_creator_index' = current_creator_index
             /\ ~HasEv(effects', "read")
       /\ (clicked = "start" /\ last_status.msg = "StoppedByUser" /\ automation_running
            /\ clicked' = "none")
          => /\ last_status' # last_status
             /\ \A k \in 1..Len(effects') :
                    effects'[k].e = "nav"
                    => /\ effects'[k].i = current_creator_index
                       /\ effects'[k].row = creators[current_creator_index + 1].row]_vars

\* a Start resumed a stopped queue past its first target
C5_Witness ==
    /\ clicked = "start"
    /\ automation_running
    /\ last_status.msg = "StoppedByUser"
    /\ current_creator_index >= 1

\* C6: the step that advances the cursor to len(queue) ends the session as
\* completed: not Running, the queue cleared and the cursor 0; and the Start
\* that follows reads the sheet again and builds its queue from it.
C6_CompletionResets ==
    [][/\ (\E k \in 1..Len(effects') :
                effects'[k].e = "advance" /\ effects'[k].i = Len(creators))
          => /\ ~automation_running'
             /\ creators' = <<>>
             /\ current_creator_index' = 0
             /\ last_status'.msg = "AllProcessed"
       /\ (clicked' = "start" /\ last_status.msg = "AllProcessed"
            /\ last_status'.msg \notin ValidationErrors)
          => /\ HasEv(effects', "read")
             /\ (last_status'.msg = "Found"
                    => creators' = build_creators(read_rows(sheet)))]_vars

\* a queue of two targets was completed
C6_Witness ==
    /\ last_status.msg = "AllProcessed"
    /\ \E k \in 1..Len(effects) : effects[k].e = "advance" /\ effects[k].i = 2
    /\ creators = <<>>

\* C7: while the queue is the same, the cursor changes by 0 or +1 in every run,
\* and the target a step navigates to is queue[cursor].
C7_CursorMonotonic ==
    [][/\ (creators' = creators /\ creators # <<>>)
          => current_creator_index' \in {current_creator_index, current_creator_index + 1}
       /\ \A k \in 1..Len(effects') :
            effects'[k].e = "nav"
            => /\ current_creator_index < Len(creators)
               /\ effects'[k].i = current_creator_index
               /\ effects'[k].row = creators[current_creator_index + 1].row
               /\ effects'[k].txt = creators[current_creator_index + 1].cid]_vars

\* the second target of a queue is navigated to after a Stop and a Start
C7_Witness ==
    /\ \E k \in 1..Len(effects) : effects[k].e = "nav" /\ effects[k].i = 1
    /\ current_creator_index = 1
    /\ Len(creators) = 2

\* C8: 0 <= cursor <= len(queue) in every reachable state.
C8_CursorInRange ==
    /\ 0 <= current_creator_index
    /\ current_creator_index <= Len(creators)

\* a session that failed on the last target of its queue
C8_Witness ==
    /\ current_creator_index >= 1
    /\ current_creator_index = Len(creators) - 1
    /\ ~automation_running

\* the inputs the validation of Start must refuse
InvalidStart(in) ==
    \/ /\ \A k \in 1..Len(in.custom_messages) : strip(in.custom_messages[k]) = <<>>
       /\ (in.files = 0 \/ in.save_fail # 0)
    \/ ~in.sheet_id
    \/ ~in.selected_sheet_name
    \/ strip(in.store_id) = <<>>

\* C9: wherever Start can be clicked, a Start with no message and no image, or
\* without sheet id, sheet selection or store id, leaves the session not
\* Running, reports a validation error and leaves the queue and the cursor.
C9_InvalidStartRejected ==
    stop_button_disabled =>
        \A in \in StartInputs :
            InvalidStart(in) =>
                LET r == script_run(Session, "start", in, NoFault)
                IN  /\ ~r.running
                    /\ r.status.msg \in ValidationErrors
                    /\ r.creators = creators
                    /\ r.idx = current_creator_index
                    /\ NoSideEffect(r.fx) /\ ~HasEv(r.fx, "read")

\* a Start was refused for its store id while a queue was waiting
C9_Witness ==
    /\ clicked = "start"
    /\ last_status.msg = "NeedStoreId"
    /\ ~automation_running
    /\ current_creator_index >= 1

\* the browser cannot be reached: no Chrome listens and no live handle is held
DriverUnreachable == ~chrome /\ driver # "Live"

\* C10, as the specification states it: a Start issued while the browser cannot
\* be reached is rejected, the session does not enter Running and no queue is
\* built.
C10_StartNeedsDriver ==
    [][(clicked' = "start" /\ DriverUnreachable)
        => /\ ~automation_running'
           /\ creators' = creators]_vars

\* C10, amended: Start does not look at the browser: while it cannot be
\* reached, a Start with valid inputs and a row to message builds the queue and
\* enters Running without touching the driver handle; the step that follows
\* finds the driver missing and leaves Running with the handle empty, the
\* cursor and the queue unchanged and nothing navigated, sent or written.
C10_DriverCheckedByStep ==
    [][/\ (clicked' = "start" /\ DriverUnreachable /\ last_status'.msg = "Found")
          => /\ automation_running'
             /\ creators' # <<>>
             /\ driver' = driver
       /\ (clicked' \in {"none", "close"} /\ DriverUnreachable /\ step_guard(Session))
          => /\ ~automation_running'
             /\ last_status'.msg \in {"DriverNotActive", "BrowserError"}
             /\ driver' = "None"
             /\ current_creator_index' = current_creator_index
             /\ creators' = creators
             /\ sheet' = sheet
             /\ NoSideEffect(effects')]_vars

\* a step found no driver for a queue that a Start had built
C10_Witness ==
    /\ last_status.msg = "DriverNotActive"
    /\ ~chrome
    /\ ~automation_running
    /\ creators # <<>>

\* C11: a rerun of the script while the session is not running navigates
\* nowhere, sends and writes nothing, and leaves the queue, the cursor, the
\* running flag, the driver handle and the last status as they were, every time.
C11_IdleTickIsNoOp ==
    [][(clicked' = "none" /\ ~automation_running)
        => /\ creators' = creators
           /\ current_creator_index' = current_creator_index
           /\ automation_running' = automation_running
           /\ driver' = driver
           /\ sheet' = sheet
           /\ last_status' = last_status
           /\ effects' = <<>>]_vars

\* a rerun found a stopped session with a live driver in the middle of its queue
C11_Witness ==
    /\ clicked = "none"
    /\ ~automation_running
    /\ effects = <<>>
    /\ driver = "Live"
    /\ current_creator_index >= 1
    /\ current_creator_index < Len(creators)

\* C12: Stop sets the running flag to false and the status to its own message
\* and changes nothing else of the session: the queue, the cursor, the driver
\* handle and the sheet are the same after Stop as before it, and nothing is
\* navigated to, sent or written.
C12_StopKeepsPosition ==
    [][clicked' = "stop"
        => /\ ~automation_running'
           /\ last_status' = Status("StoppedByUser", 0)
           /\ creators' = creators
           /\ current_creator_index' = current_creator_index
           /\ driver' = driver
           /\ sheet' = sheet
           /\ effects' = <<>>]_vars

\* Stop was clicked in the middle of a queue while the driver was attached
C12_Witness ==
    /\ clicked = "stop"
    /\ ~automation_running
    /\ driver = "Live"
    /\ current_creator_index >= 1
    /\ current_creator_index < Len(creators)

\* ------------------------------------------------------ the queue builder alone
\* Sheets for the builder: a header wide enough or not, and up to MaxRows data
\* rows of every kind the build loop tells apart.
BoolRow(link, approached) ==
    [k \in 1..8 |-> IF k = 5 THEN StrCell(link)
                    ELSE IF k = 8 THEN BoolCell(approached) ELSE Filler]

\* a row that ends before its link cell
ShortRow == <<Filler, Filler>>

BuilderRows ==
    {LinkRow(<<"c", "i", "d", "=", "1", "&", "y">>),
     FullRow(<<"c", "i", "d", "=", "2">>, <<" ", "t", "r", "u", "e">>),
     FullRow(<<"x", "c", "i", "d", "=", "1">>, <<"F", "A", "L", "S", "E">>),
     LinkRow(<<"x">>),
     BoolRow(<<"c", "i", "d", "=", "3">>, TRUE),
     ShortRow,
     FullRow(<<"c", "i", "d", "=", "4", "c", "i", "d", "=", "5", "&", "z">>, <<"n", "o">>),
     BoolRow(<<"c", "i", "d", "=">>, FALSE)}

BuilderSheets ==
    UNION {{<<h>> \o rows : rows \in [1..n -> BuilderRows], h \in {WideHeader, NarrowHeader}} :
            n \in 0..MaxRows}

\* the widget values of a Start that passes the validation and reads the sheet
BuildInputs ==
    {in \in StartInputs :
        /\ validation_error([paths |-> [k \in 1..(IF in.save_fail = 0 THEN in.files ELSE 0) |-> k]],
                            in) = "ok"
        /\ in.read_ok}

BuilderInit ==
    /\ driver = "None"
    /\ chrome = TRUE
    /\ creators = <<>>
    /\ current_creator_index = 0
    /\ automation_running = FALSE
    /\ last_status = Status("Ready", 0)
    /\ uploaded_image_paths = <<>>
    /\ temp_files = {}
    /\ sheet \in BuilderSheets
    /\ stop_button_disabled = TRUE
    /\ clock = 1
    /\ times_submitted = 0
    /\ clicked = "none"
    /\ effects = <<>>

\* a Start with valid inputs
BuildQueue ==
    /\ stop_button_disabled
    /\ \E in \in BuildInputs :
        /\ Commit(script_run(Session, "start", in, NoFault), "start")
        /\ UNCHANGED <<chrome, clock, times_submitted>>

BuilderNext == BuildQueue

BuilderSpec == BuilderInit /\ [][BuilderNext]_vars

\* ------------------------------------------------------ what the builder is to do
\* the cell of a row in the 0-based column col, empty when the row is shorter
CellAt(row, col) == IF col + 1 <= Len(row) THEN row[col + 1] ELSE StrCell(<<>>)

\* the text is TRUE after trimming, in any case of its letters
IsTrueText(v) ==
    LET w == strip(v)
    IN  /\ Len(w) = 4
        /\ w[1] \in {"t", "T"} /\ w[2] \in {"r", "R"}
        /\ w[3] \in {"u", "U"} /\ w[4] \in {"e", "E"}

ApprovedCell(c) == IF c.t = "bool" THEN c.b ELSE IsTrueText(c.v)

EligibleRow(row) ==
    /\ find(CellAt(row, link_col_idx).v, Txt_cid) > 0
    /\ ~ApprovedCell(CellAt(row, approached_col_idx))

WidestColumn == IF link_col_idx > approached_col_idx THEN link_col_idx ELSE approached_col_idx

\* the sheet has a data row and a header with both columns
Buildable(rows) == Len(rows) >= 2 /\ Len(rows[1]) > WidestColumn

\* C13: for every sheet with a header wide enough, every target of the built
\* queue comes from a row whose link contains cid= and whose approved cell is
\* neither boolean true nor a text equal to TRUE after trimming and case
\* folding, whether the cells are as stored or as the read returns them; the
\* queue a Start has built obeys it; and building again from the same sheet
\* gives the same queue.
C13_BuildExcludesIneligible ==
    Buildable(sheet) =>
        /\ \A rows \in {sheet, read_rows(sheet)} :
                LET q == build_creators(rows)
                IN  \A k \in 1..Len(q) :
                        /\ q[k].row \in 2..Len(rows)
                        /\ EligibleRow(rows[q[k].row])
        /\ \A k \in 1..Len(creators) :
                /\ creators[k].row \in 2..Len(sheet)
                /\ EligibleRow(sheet[creators[k].row])
        /\ \A in \in BuildInputs :
                rebuild(rebuild(Session, in), in).creators = rebuild(Session, in).creators

\* a Start built a queue from a sheet that has a row with cid= marked approved
C13_Witness ==
    /\ clicked = "start"
    /\ creators # <<>>
    /\ \E r \in 2..Len(sheet) :
            /\ find(CellAt(sheet[r], link_col_idx).v, Txt_cid) > 0
            /\ ApprovedCell(CellAt(sheet[r], approached_col_idx))

\* the part of the link after its first cid= and before the next & (or its end)
IdOf(link) ==
    LET p == find(link, Txt_cid)
        after == SubSeq(link, p + Len(Txt_cid), Len(link))
        q == find(after, Txt_amp)
    IN  IF q = 0 THEN after ELSE SubSeq(after, 1, q - 1)

\* one target per eligible row, in row order: the data row with 0-based index j
\* is rows[j + 2] and its target has sourceRow j + 2
ExpectedQueue(rows) ==
    LET eligible == SelectSeq([k \in 1..(Len(rows) - 1) |-> k + 1],
                              LAMBDA r : EligibleRow(rows[r]))
    IN  [k \in 1..Len(eligible) |->
            [row |-> eligible[k],
             cid |-> IdOf(CellAt(rows[eligible[k]], link_col_idx).v)]]

\* C14: the built queue holds exactly one target per eligible row, in row
\* order; the target of the data row with index j has sourceRow j + 2 and as id
\* the part of the link after the first cid= and before the next & or the end
\* of the link; a row shorter than the link or the approved column counts as
\* having an empty cell there.
C14_OneTargetPerEligibleRow ==
    Buildable(sheet) =>
        /\ build_creators(read_rows(sheet)) = ExpectedQueue(read_rows(sheet))
        /\ clicked = "start" => creators = ExpectedQueue(read_rows(sheet))

C16_QueueDeduplicated ==
    \A j, k \in 1..Len(creators) : j # k => creators[j].cid # creators[k].cid

\* C16, amended: the queue is not deduplicated by id.  It has one target for
\* every eligible row of the sheet, so as many targets as eligible rows, with
\* strictly increasing sourceRows; eligible rows that carry the same cid give
\* targets with the same id.
C16_OneTargetPerRowNoDedup ==
    (Buildable(sheet) /\ clicked = "start") =>
        /\ {creators[k].row : k \in 1..Len(creators)}
                = {r \in 2..Len(sheet) : EligibleRow(sheet[r])}
        /\ \A j, k \in 1..Len(creators) : j < k => creators[j].row < creators[k].row
        /\ \A j, k \in 2..Len(sheet) :
                (j < k /\ EligibleRow(sheet[j]) /\ EligibleRow(sheet[k])
                    /\ parse_cid(row_link(sheet[j])) = parse_cid(row_link(sheet[k])))
                => \E a, b \in 1..Len(creators) :
                        /\ a < b
                        /\ creators[a].row = j /\ creators[b].row = k
                        /\ creators[a].cid = creators[b].cid

\* a Start built a queue of two targets with the same id
C16_Witness ==
    /\ clicked = "start"
    /\ Len(creators) = 2
    /\ creators[1].cid = creators[2].cid
    /\ creators[1].row # creators[2].row

\* the Monday of the week of the date
MondayOf(date) == minus_days(date, CHOOSE n \in 0..6 : weekday(minus_days(date, n)) = 0)

\* the values recorded for a message sent on the date
SentValues(date) ==
    <<BoolCell(TRUE), StrCell(strftime_mdY(date)), StrCell(strftime_mdY(MondayOf(date))),
      StrCell(strftime_B(date))>>

\* the step of the run went through: it navigated, nothing reached its except
\* clauses, and the sheet update did not fail
StepSucceeded(fx) ==
    /\ HasEv(fx, "nav")
    /\ ~HasEv(fx, "raised")
    /\ \A k \in 1..Len(fx) : fx[k].e = "write" => fx[k].ok

\* C17: every step that succeeds issues exactly one sheet update, for the row
\* of the target at the cursor, with the values [true, date sent, Monday of the
\* week of the date sent, month name of the date sent], and advances the
\* cursor; the step for the last target ends the session as completed.  So a
\* session of n targets whose steps all succeed makes n updates in queue order
\* and completes.
C17_EveryStepWritesSentDate ==
    [][StepSucceeded(effects')
        => LET w == EvsOf(effects', "write")
               row == creators[current_creator_index + 1].row
           IN  /\ Len(w) = 1
               /\ w[1].row = row
               /\ HasEv(effects', "advance")
               /\ \E n \in clock..clock' :
                    SubSeq(sheet'[row], 8, 11) = SentValues(Days[n])
               /\ IF current_creator_index + 1 = Len(creators)
                  THEN ~automation_running' /\ last_status'.msg = "AllProcessed"
                  ELSE /\ automation_running'
                       /\ current_creator_index' = current_creator_index + 1]_vars

\* C18: when the attachment part of a step fails after the text blocks were
\* sent (the file input is not found, the upload raises any error, or the
\* confirmation dialog does not show or fails), nothing reaches the except
\* clauses of the step: the sheet update for the target is issued after it, and
\* if the update succeeds the cursor advances and the session keeps running or
\* completes.
C18_AttachmentFailureStillSent ==
    [][\A k \in 1..Len(effects') :
        effects'[k].e = "caught_in_upload"
        => /\ ~HasEv(effects', "raised")
           /\ Len(EvsOf(effects', "msg")) = Len(EvsOf(effects', "type"))
           /\ \E j \in (k + 1)..Len(effects') :
                /\ effects'[j].e = "write"
                /\ effects'[j].row = creators[current_creator_index + 1].row
                /\ IF effects'[j].ok
                   THEN /\ HasEv(effects', "advance")
                        /\ \/ /\ automation_running'
                              /\ current_creator_index' = current_creator_index + 1
                           \/ /\ last_status'.msg = "AllProcessed"
                              /\ current_creator_index + 1 = Len(creators)
                   ELSE last_status'.msg = "FailedUpdate"]_vars

\* the file input was not found after two text blocks were sent, and the
\* session went on to its next target
C18_Witness ==
    /\ \E k \in 1..Len(effects) :
            /\ effects[k].e = "caught_in_upload"
            /\ effects[k].txt = <<"NoSuchElementException">>
    /\ Len(EvsOf(effects, "msg")) = 2
    /\ HasEv(effects, "advance")
    /\ automation_running

\* C19, as the specification states it: whenever a step runs for a target,
\* whatever its outcome, by the end of the run the list of attachment paths is
\* empty and every temporary file of the attachments is deleted.
C19_CleanupAfterEveryStep ==
    [][(HasEv(effects', "nav") \/ HasEv(effects', "raised"))
        => /\ uploaded_image_paths' = <<>>
           /\ \A k \in 1..Len(effects') :
                effects'[k].e = "cleanup" => temp_files' \cap (1..effects'[k].i) = {}]_vars

\* C19, amended: a step that reaches the attachment part with attachments
\* present (the navigation, the message input and every text block went
\* through) empties the list of paths and tries to delete every temporary
\* file, whatever the attachment part did; a file whose deletion fails stays.
\* A step that fails before the attachment part cleans nothing up: it deletes
\* no file and leaves the list as the run found it.
C19_CleanupAfterUploadBlock ==
    [][/\ (HasEv(effects', "attach") \/ HasEv(effects', "confirm")
            \/ HasEv(effects', "caught_in_upload"))
          => HasEv(effects', "cleanup")
       /\ \A k \in 1..Len(effects') :
            effects'[k].e = "cleanup"
            => /\ effects'[k].i >= 1
               /\ uploaded_image_paths' = <<>>
               /\ effects'[k].ok => temp_files' \cap (1..effects'[k].i) = {}
               /\ ~effects'[k].ok => (1..effects'[k].i) \subseteq temp_files'
               /\ HasEv(effects', "write")
       /\ HasEv(effects', "raised")
          => /\ ~HasEv(effects', "cleanup")
             /\ temp_files \subseteq temp_files'
             /\ \A k \in 1..Len(uploaded_image_paths') :
                    uploaded_image_paths'[k] \in temp_files']_vars

\* the attachment part failed and its files were deleted
C19_Witness ==
    /\ HasEv(effects, "caught_in_upload")
    /\ \E k \in 1..Len(effects) : effects[k].e = "cleanup" /\ effects[k].ok
    /\ uploaded_image_paths = <<>>
    /\ temp_files = {}

\* the text blocks of the message form that are not blank, trimmed, in order
NonBlankBlocks(custom_messages) ==
    LET kept == SelectSeq(custom_messages,
                          LAMBDA m : \E k \in 1..Len(m) : m[k] # " ")
    IN  [k \in 1..Len(kept) |-> strip(kept[k])]

\* C20: in every rerun, whatever the message form holds and whatever the
\* browser and the store do, the step types and submits the non-blank text
\* blocks one at a time and in the order of the form: block k + 1 is typed only
\* after block k was submitted, a blank block is neither typed nor submitted,
\* and the attachments are handed over at most once, after every block was
\* submitted.
C20_BlocksInOrderThenImages ==
    \A in \in TickInputs :
        \A f \in Outcomes(before_step(Session, "none", in), in) :
            LET fx == script_run(Session, "none", in, f).fx
                blocks == NonBlankBlocks(in.custom_messages)
                io == SelectSeq(fx, LAMBDA e : e.e \in {"type", "msg", "attach"})
                typed == Len(EvsOf(fx, "type"))
                sent == Len(EvsOf(fx, "msg"))
                attached == Len(EvsOf(fx, "attach"))
            IN  /\ sent <= Len(blocks)
                /\ typed \in {sent, sent + 1}
                /\ typed <= Len(blocks)
                /\ attached <= 1
                /\ \A j \in 1..(typed + sent) :
                        IF j % 2 = 1
                        THEN /\ io[j].e = "type"
                             /\ io[j].txt = blocks[(j + 1) \div 2]
                        ELSE /\ io[j].e = "msg"
                             /\ io[j].txt = blocks[j \div 2]
                /\ attached = 1
                    => /\ sent = Len(blocks)
                       /\ typed = sent
                       /\ io[Len(io)].e = "attach"

\* a step submitted the two blocks around a blank one and then the attachments
C20_Witness ==
    /\ Len(EvsOf(effects, "msg")) = 2
    /\ EvsOf(effects, "msg")[1].txt = <<"a">>
    /\ EvsOf(effects, "msg")[2].txt = <<"b">>
    /\ HasEv(effects, "attach")

\* the run ended the running episode by a failure: an exception reached the
\* except clauses of the step, the sheet update failed, or the step found no
\* driver
StepFailed(stepped, fx, status) ==
    \/ HasEv(fx, "raised")
    \/ \E k \in 1..Len(fx) : fx[k].e = "write" /\ ~fx[k].ok
    \/ stepped /\ status.msg = "DriverNotActive"

\* the run that leads to the next state enters the automation block: the
\* session is running and the run is not the one of a Start or a Stop click
StepEntered == automation_running /\ clicked' \in {"none", "close", "launch"}

\* C21: every failure of a step ends the running episode, and from then on, as
\* long as the session is not running, no run other than a Start navigates,
\* submits a message, attaches a file or writes to the sheet, and none moves
\* the cursor, changes the queue or sets the session running: reruns, Close and
\* Launch never retry the failed target.
C21_NoRetryWithoutStart ==
    [][/\ StepFailed(StepEntered, effects', last_status')
          => ~automation_running'
       /\ (~automation_running /\ clicked' # "start")
          => /\ ~automation_running'
             /\ NoSideEffect(effects')
             /\ ~HasEv(effects', "rerun")
             /\ sheet' = sheet
             /\ creators' = creators
             /\ current_creator_index' = current_creator_index]_vars

\* a rerun came after the sheet update of the second target had failed, and
\* did nothing
C21_Witness ==
    /\ last_status.msg = "FailedUpdate"
    /\ clicked = "none"
    /\ effects = <<>>
    /\ ~automation_running
    /\ current_creator_index = 1
    /\ Len(creators) = 2

\* C22: a Stop clicked while a step is in flight does not cut the step short:
\* once the rerun for the click is over, the session is not running and the
\* step has reached its outcome: it failed (an exception reached its except
\* clauses, the sheet update failed, or it found no driver), or it updated the
\* sheet for its target and advanced the cursor by one (or completed the queue).
C22_StopWaitsForStep ==
    [][clicked' = "stop_in_flight"
        => /\ ~automation_running'
           /\ \/ StepFailed(FALSE, effects', last_status')
              \/ driver' = "None" /\ effects' = <<>>
              \/ /\ HasEv(effects', "write")
                 /\ HasEv(effects', "advance")
                 /\ \/ /\ creators' = creators
                       /\ current_creator_index' = current_creator_index + 1
                       /\ current_creator_index' < Len(creators)
                    \/ /\ creators' = <<>>
                       /\ current_creator_index' = 0]_vars

\* C23: the queue changes in two ways only.  A Start whose inputs are valid
\* replaces it by the queue built from a fresh read of the sheet, and only when
\* the queue is empty or the cursor is at its end; and the step that advances
\* the cursor to the end of the queue clears it.  No other run (Stop, rerun,
\* Close, Launch, a failed step, a step that moves on to the next target, a
\* rejected Start, a Start that resumes) changes the queue.
C23_QueueChangesOnlyByBuildOrCompletion ==
    [][/\ creators' # creators
          => \/ /\ clicked' = "start"
                /\ creators = <<>> \/ current_creator_index >= Len(creators)
                /\ last_status'.msg \notin ValidationErrors
                /\ HasEv(effects', "read")
                /\ creators' = build_creators(read_rows(sheet))
             \/ /\ clicked' # "start"
                /\ \E k \in 1..Len(effects') :
                      effects'[k].e = "advance" /\ effects'[k].i = Len(creators)
                /\ creators' = <<>>
       /\ (clicked' = "start"
            /\ creators # <<>> /\ current_creator_index < Len(creators))
          => ~HasEv(effects', "read")
       /\ (clicked' = "stop" \/ StepFailed(StepEntered, effects', last_status')
            \/ last_status'.msg \in ValidationErrors \/ last_status'.msg = "Moving")
          => creators' = creators]_vars

\* a queue of two targets is still whole, its cursor on the second target,
\* after the driver handle was dropped and a Start was rejected
C23_Witness ==
    /\ clicked = "start"
    /\ last_status.msg \in ValidationErrors
    /\ Len(creators) = 2
    /\ current_creator_index = 1
    /\ driver = "None"

\* the status messages of the failures that end the running episode
FailureStatuses ==
    {"DriverNotActive", "Timeout", "ElementNotFound", "BrowserError", "Unexpected",
     "FailedUpdate"}

\* C24, as the specification states it: every failure of the step for queue[i]
\* that ends the running episode leaves the queue and the cursor as they were
\* and the driver handle released.
C24_EveryAbortReleasesDriver ==
    [][StepFailed(StepEntered, effects', last_status')
        => /\ ~automation_running'
           /\ creators' = creators
           /\ current_creator_index' = current_creator_index
           /\ driver' = "None"]_vars

\* C24, amended: every failure of the step for queue[i] ends the running
\* episode and leaves the queue and the cursor as a Stop would leave them.  The
\* driver handle is released only when a browser error (WebDriverException)
\* reached the except clauses of the step; it is absent when the step found no
\* driver; after every other failure (timeout, element not found, unexpected
\* error, failed sheet update) the step's handle is kept.  A following Start
\* with valid inputs keeps the queue and the cursor and does not read the sheet,
\* and the step after it is for queue[i].
C24_AbortKeepsPosition ==
    [][/\ StepFailed(StepEntered, effects', last_status')
          => /\ ~automation_running'
             /\ last_status'.msg \in FailureStatuses
             /\ creators' = stop_handler(Session).creators
             /\ current_creator_index' = stop_handler(Session).idx
             /\ driver' = IF Raised(effects', "WebDriverException")
                             \/ last_status'.msg = "DriverNotActive"
                          THEN "None" ELSE "Live"
       /\ (clicked' = "start" /\ last_status.msg \in FailureStatuses
            /\ last_status'.msg \notin ValidationErrors)
          => /\ automation_running'
             /\ creators' = creators
             /\ current_creator_index' = current_creator_index
             /\ last_status' = last_status
             /\ ~HasEv(effects', "read")
       /\ (clicked = "start" /\ automation_running
            /\ last_status.msg \in FailureStatuses /\ clicked' = "none")
          => \A k \in 1..Len(effects') :
                effects'[k].e = "nav"
                => /\ effects'[k].i = current_creator_index
                   /\ effects'[k].row = creators[current_creator_index + 1].row]_vars

\* a Start resumed on the second target of a queue after a timeout that left
\* the driver attached
C24_Witness ==
    /\ clicked = "start"
    /\ automation_running
    /\ last_status.msg = "Timeout"
    /\ driver = "Live"
    /\ current_creator_index = 1
    /\ Len(creators) = 2

\* the sheet row has its approached cell set
Recorded(row) == row \in 1..Len(sheet) /\ ApprovedCell(CellAt(sheet[row], approached_col_idx))

\* C25, as the specification states it: within one built queue, no target has
\* the message sequence submitted to it in more than one run; every submission
\* goes to the target at the cursor, and a run submits the sequence only if no
\* earlier run has submitted it to that target.
C25_SubmittedAtMostOnce ==
    [][/\ \A k \in 1..Len(effects') :
            effects'[k].e \in {"msg", "attach"}
            => effects'[k].row = creators[current_creator_index + 1].row
       /\ SubmittedAll(effects') => times_submitted = 0]_vars

\* C25, amended: within one built queue the message sequence is submitted
\* again to a target only if no run that submitted it ended with the sheet
\* update for that target.  Every submission goes to the target at the cursor,
\* whose sheet row is not recorded; the cursor never goes back while the queue
\* is the same; a run whose sheet update succeeds records the row and leaves
\* its target behind the cursor (or clears the queue); so a recorded target is
\* never messaged again.  A target whose sheet update failed stays at the
\* cursor unrecorded, and the step after the next Start submits the sequence
\* to it again.
C25_ResendOnlyUnrecorded ==
    [][/\ \A k \in 1..Len(effects') :
            effects'[k].e \in {"msg", "attach"}
            => /\ effects'[k].row = creators[current_creator_index + 1].row
               /\ ~Recorded(effects'[k].row)
       /\ creators' = creators => current_creator_index' >= current_creator_index
       /\ \A k \in 1..Len(effects') :
            (effects'[k].e = "write" /\ effects'[k].ok)
            => /\ ApprovedCell(CellAt(sheet'[effects'[k].row], approached_col_idx))
               /\ times_submitted' = 0
               /\ \/ creators' = <<>>
                  \/ /\ creators' = creators
                     /\ current_creator_index' = current_creator_index + 1
       /\ times_submitted' >= 1
            => /\ current_creator_index' < Len(creators')
               /\ ~ApprovedCell(CellAt(sheet'[creators'[current_creator_index' + 1].row],
                                       approached_col_idx))
       /\ (times_submitted >= 1 /\ SubmittedAll(effects'))
            => /\ clicked = "start"
               /\ times_submitted' = 2 \/ times_submitted' = 0]_vars

\* the message sequence was submitted a second time to the second target of a
\* queue, after the sheet update for it had failed and a Start had resumed
C25_Witness ==
    /\ times_submitted = 2
    /\ HasEv(effects, "msg")
    /\ last_status.msg = "FailedUpdate"
    /\ current_creator_index = 1
    /\ Len(creators) = 2

\* the target id can be extracted from the link: something stands between the
\* first cid= and the next & (or the end of the link)
HasId(row) == IdOf(CellAt(row, link_col_idx).v) # <<>>

\* C26: the queue a Start builds has no target for a row whose link gives no
\* target id (cid= followed directly by & or by the end of the link), and it
\* has a target for every other eligible row.
C26_UnparsableRowExcluded ==
    (Buildable(sheet) /\ clicked = "start") =>
        /\ \A k \in 1..Len(creators) : creators[k].cid # <<>>
        /\ {creators[k].row : k \in 1..Len(creators)}
                = {r \in 2..Len(sheet) : EligibleRow(sheet[r]) /\ HasId(sheet[r])}

\* C27: when reruns are fair, no Stop is clicked and no step fails, a session
\* that is running on its queue of n >= 1 targets is eventually completed (not
\* running, the queue cleared, the cursor 0); every step on the way is for the
\* target at the cursor, updates the sheet once, for that target's row, and
\* advances the cursor by exactly one, the step for the last target being the
\* one that completes: n steps, one for each target in queue order.
C27_FairSessionCompletes ==
    /\ (automation_running /\ creators # <<>>)
        ~> (/\ ~automation_running
            /\ last_status.msg = "AllProcessed"
            /\ creators = <<>>
            /\ current_creator_index = 0)
    /\ [][(automation_running /\ clicked' = "none")
            => LET row == creators[current_creator_index + 1].row
                   w == EvsOf(effects', "write")
                   nav == EvsOf(effects', "nav")
               IN  /\ current_creator_index < Len(creators)
                   /\ Len(nav) = 1 /\ nav[1].row = row
                   /\ Len(w) = 1 /\ w[1].row = row /\ w[1].ok
                   /\ ApprovedCell(CellAt(sheet'[row], approached_col_idx))
                   /\ IF current_creator_index + 1 < Len(creators)
                      THEN /\ automation_running'
                           /\ creators' = creators
                           /\ current_creator_index' = current_creator_index + 1
                      ELSE /\ ~automation_running'
                           /\ last_status'.msg = "AllProcessed"
                           /\ creators' = <<>>]_vars

\* a session on two targets was completed and both rows are recorded
C27_Witness ==
    /\ last_status.msg = "AllProcessed"
    /\ ~automation_running
    /\ creators = <<>>
    /\ Len(sheet) = 3
    /\ Recorded(2)
    /\ Recorded(3)

\* C28: a Start that passed the validation and read the sheet, when the read
\* gave fewer than two rows or the build found no eligible target, leaves the
\* session not running with an empty queue and the cursor at 0, reports it,
\* requests no rerun, and neither attaches or releases a driver, nor navigates,
\* types or attaches anything, nor writes to the sheet.
C28_EmptyStartDoesNothing ==
    [][(clicked' = "start" /\ HasEv(effects', "read"))
        => LET sheet_data == read_sheet_data(sheet, EvsOf(effects', "read")[1].ok)
           IN  (\/ Len(sheet_data) < 2
                \/ (~header_too_narrow(sheet_data) /\ build_creators(sheet_data) = <<>>))
               => /\ ~automation_running'
                  /\ creators' = <<>>
                  /\ current_creator_index' = 0
                  /\ last_status'.msg = IF Len(sheet_data) < 2 THEN "NoData"
                                        ELSE "NoNewCreators"
                  /\ driver' = driver
                  /\ sheet' = sheet
                  /\ NoSideEffect(effects')
                  /\ ~HasEv(effects', "rerun")]_vars

\* with a browser session held, Start read a sheet of two data rows and found
\* no creator to message
C28_Witness ==
    /\ clicked = "start"
    /\ last_status.msg = "NoNewCreators"
    /\ HasEv(effects, "read")
    /\ driver = "Live"
    /\ Len(sheet) = 3
    /\ ~automation_running
    /\ creators = <<>>

====
